---- MODULE Spec2Model ----
(***************************************************************************)
(* kubectl-volsync: the relationship-create flows of the CLI.              *)
(*                                                                         *)
(* One CLI process is invoked repeatedly against clusters whose objects    *)
(* persist between invocations.  Two editions of the migration create      *)
(* flow are in the source: the Run of pvbackup.go:209 (edition "A") and    *)
(* the Run of pvbackup.go:560 (edition "B"); both are modelled, and a      *)
(* behaviour is the runs of one build of the CLI: one edition of one       *)
(* command.  The backup create flow is src/unnamed/part_000, built with    *)
(* its own parseResticConfig or with that of common_utils.go; waitForSync  *)
(* of common_utils.go, whose callers are not among the files, is called on *)
(* its own (flow "sync").                                                  *)
(***************************************************************************)
EXTENDS Integers, Sequences, FiniteSets, TLC

\* ------------------------------------------------------------------ bounds
\* CLI invocations in one behaviour
MaxRuns == 2
\* defaultRsyncKeyTimeout, the timeout of the backup wait, in seconds (the
\* constant is set outside the files at hand)
RsyncKeyTimeout == 20
\* defaultVolumeSyncTimeout, the timeout of waitForSync, in seconds (set
\* outside the files at hand as well)
VolumeSyncTimeout == 10

\* ------------------------------------------------------- program constants
\* wait.PollImmediate(5*time.Second, 2*time.Minute, ...), in seconds
PollInterval == 5
DestinationTimeout == 120

\* ------------------------------------------------------------------ values
\* a nil pointer / an absent value
Nil == "<nil>"
\* a nil pointer to a struct / an absent object
NoObj == [nil |-> TRUE]
\* cmd.Flags().GetString returned an error (the flag is not defined)
FlagErr == "<flag error>"
\* a flag the run has not read yet
Unread == "<unread>"

\* --copymethod values a user can pass
CopyMethodFlags == {"Direct", "Clone", "Snapshot", "None", "Rsync", FlagErr}
\* --servicetype values
ServiceTypeFlags == {"ClusterIP", "NodePort", "LoadBalancer", "ExternalName"}
\* --accessmodes values
AccessModeFlags == {"", "ReadWriteOnce", "ReadWriteMany", "ReadWriteTwice"}
\* what the command's flag set answers for --copymethod in the runs of the
\* whole flow: edition A registers the flag (values the validation lets
\* through and rejects), edition B's init registers no such flag, so that
\* its lookup always fails
RunCopyMethodFlags(ed) == IF ed = "A" THEN {"Snapshot", "None", "Rsync"} ELSE {FlagErr}
\* the values of these flags in the runs of the whole flow: for each edition
\* one the validation lets through and one it rejects
RunServiceTypeFlags == {"ClusterIP", "NodePort", "ExternalName"}
RunAccessModeFlags == {"", "ReadWriteOnce", "ReadWriteTwice"}
\* --capacity values
CapacityFlags == {"", "10Gi", "ten"}
\* --storageclass values
StorageClassFlags == {"", "fast"}
\* --pvcname values, as the characters of the string
PvcNameFlags ==
    { <<"n", "/", "v">>, <<"c", "/", "n", "/", "v">>, <<"v">>, <<"n", "/">>,
      <<"a", "/", "c", "/", "n", "/", "v">> }

\* --name values
BackupNameFlags == {"nightly", "weekly"}
\* --cronspec values, as the whitespace-separated fields of the string
CronSpecFlags ==
    { <<>>, <<"*/5", "*", "*", "*", "*">>, <<"@daily">>, <<"not", "a", "cron">> }

\* the --name and --cronspec of the runs of the whole flow: one backup with
\* each schedule but the descriptor, another with the descriptor
BackupRunFlags ==
    {<<"nightly", c>> : c \in CronSpecFlags \ {<<"@daily">>}}
        \cup {<<n, <<"@daily">> >> : n \in BackupNameFlags \ {"nightly"}}

\* a value viper.Get returns for a key of the restic config file
StringValue(v) == [type |-> "string", val |-> v]
IntValue(v) == [type |-> "int", val |-> v]

\* a restic config file with all four keys
FullResticFile ==
    [AWS_ACCESS_KEY_ID |-> StringValue("id"), AWS_SECRET_ACCESS_KEY |-> StringValue("key"),
     RESTIC_REPOSITORY |-> StringValue("s3:repo"), RESTIC_PASSWORD |-> StringValue("pw")]

\* the restic config files a user can leave at the --restic-config path
\* before a run; NoObj is no file
ResticFiles ==
    { NoObj, FullResticFile,
      [FullResticFile EXCEPT !.RESTIC_PASSWORD = NoObj],
      [FullResticFile EXCEPT !.RESTIC_REPOSITORY = NoObj],
      [FullResticFile EXCEPT !.RESTIC_REPOSITORY = IntValue("7")],
      [FullResticFile EXCEPT !.RESTIC_REPOSITORY = StringValue("")] }

\* ----------------------------------------------------------------- strings
RECURSIVE Str(_)
\* the string a sequence of characters spells
Str(cs) == IF cs = <<>> THEN "" ELSE Head(cs) \o Str(Tail(cs))

RECURSIVE Split(_, _)
\* strings.Split(s, sep) on a sequence of characters: the segments, each a
\* sequence of characters
Split(cs, sep) ==
    IF cs = <<>> THEN << <<>> >>
    ELSE IF Head(cs) = sep THEN << <<>> >> \o Split(Tail(cs), sep)
    ELSE LET rest == Split(Tail(cs), sep)
         IN  << <<Head(cs)>> \o Head(rest) >> \o Tail(rest)

\* ParseXClusterName: [cluster/]namespace/name -> XClusterName, or
\* NoObj on a malformed identifier
ParseXClusterName(cs) ==
    LET seg == Split(cs, "/")
        xcr == IF Len(seg) = 2
               THEN [Cluster |-> "", Namespace |-> Str(seg[1]), Name |-> Str(seg[2])]
               ELSE [Cluster |-> Str(seg[1]), Namespace |-> Str(seg[2]),
                     Name |-> Str(seg[3])]
    IN  IF Len(seg) \notin {2, 3} THEN NoObj
        ELSE IF xcr.Namespace = "" \/ xcr.Name = "" THEN NoObj
        ELSE xcr

RECURSIVE Join(_, _)
\* strings.Join(fields, sep)
Join(fs, sep) ==
    IF fs = <<>> THEN ""
    ELSE IF Len(fs) = 1 THEN fs[1]
    ELSE fs[1] \o sep \o Join(Tail(fs), sep)

\* resource.ParseQuantity on the capacity strings of the model: the quantity,
\* or NoObj when the string is no quantity
ParseQuantity(s) ==
    CASE s = "10Gi" -> [value |-> 10, suffix |-> "Gi", Format |-> "BinarySI"]
      [] s = "5Gi" -> [value |-> 5, suffix |-> "Gi", Format |-> "BinarySI"]
      [] OTHER -> NoObj

\* --------------------------------------------------------------- variables
VARIABLES
    cluster,   \* API objects: <<context, kind, namespace, name>> -> object
    store,     \* relationship config files: relationship type -> document
    pc,        \* position of the CLI process
    flow,      \* "migration" or "backup"
    edition,   \* which Run of the source this invocation executes
    runs,      \* invocations so far
    flags,     \* the command-line flags this run has read
    rel,       \* m / pc.pr: the in-memory relationship, NoObj before it is built
    mrd,       \* the migrationRelationshipDestination being built
    pvc,       \* cmd.PVC / mrd.PVC
    client,    \* the context the cluster client was resolved for
    disk,      \* the restic config file on the local disk, NoObj when none
    bk,        \* the pvBackupCreate struct
    wait,      \* the readiness wait: elapsed seconds and polls made
    log,       \* the steps of this run, in order: [op, res]
    err,       \* the error of the step that failed, "" when none did
    ret,       \* what the command returned: "pending", "nil", "error", "panic",
               \* or "killed" when the process was terminated
    aborted    \* the flags of the latest run terminated in its wait, NoObj
               \* when no run was

vars == <<cluster, store, pc, flow, edition, runs, flags, rel, mrd, pvc,
          client, disk, bk, wait, log, err, ret, aborted>>

Step(op, res) == [op |-> op, res |-> res]

\* ----------------------------------------------------------- cluster model
Exists(k) == k \in DOMAIN cluster

NamespaceKey(ctx, ns) == <<ctx, "Namespace", "", ns>>
PVCKey(ctx, ns, name) == <<ctx, "PersistentVolumeClaim", ns, name>>
RDKey(ctx, ns, name) == <<ctx, "ReplicationDestination", ns, name>>
SecretKey(ctx, ns, name) == <<ctx, "Secret", ns, name>>
RSKey(ctx, ns, name) == <<ctx, "ReplicationSource", ns, name>>

\* the answers client.Create can give for key k: a namespaced object needs
\* its namespace; an existing object answers AlreadyExists; any call can fail
\* for another reason (unreachable, forbidden)
CreateResults(k) ==
    IF Exists(k) THEN {"AlreadyExists", "Error"}
    ELSE IF k[2] # "Namespace" /\ ~Exists(NamespaceKey(k[1], k[3]))
         THEN {"Error"}
         ELSE {"Created", "Error"}

\* the answers client.Get can give for key k
GetResults(k) == IF Exists(k) THEN {"Found", "Error"} ELSE {"NotFound", "Error"}

\* a Create that, when it fails, takes the Secrets made before it off the
\* cluster again
AfterCreateUndo(k, obj, res) ==
    IF res = "Created" THEN cluster @@ (k :> obj)
    ELSE [j \in {j \in DOMAIN cluster : j[2] # "Secret"} |-> cluster[j]]

\* the cluster after a Create of obj under k answered res
AfterCreate(k, obj, res) == IF res = "Created" THEN cluster @@ (k :> obj) ELSE cluster

\* ------------------------------------------- migration: building the record
\* a check that lets all four copy methods of the API through in either
\* edition: not what either edition does
CopyMethodSupportedAllFour(ed, cm) == cm \in {"Direct", "Clone", "Snapshot", "None"}

\* the copy methods newMigrationRelationshipDestination lets through
CopyMethodSupported(ed, cm) ==
    IF ed = "A" THEN cm \in {"Direct", "Clone", "Snapshot"}
    ELSE cm \in {"None", "Clone", "Snapshot"}

\* the access modes newMigrationRelationshipDestination lets through
AccessModeSupported(am) ==
    am \in {"ReadWriteOnce", "ReadOnlyMany", "ReadWriteMany", "ReadWriteOncePod"}

\* a check that lets ClusterIP, NodePort and LoadBalancer through in either
\* edition: what edition B does, not what edition A does
ServiceTypeSupportedAllThree(ed, st) == st \in {"ClusterIP", "NodePort", "LoadBalancer"}

\* the service types newMigrationRelationshipDestination lets through
ServiceTypeSupported(ed, st) ==
    IF ed = "A" THEN st \in {"ClusterIP", "LoadBalancer"}
    ELSE st \in {"ClusterIP", "NodePort", "LoadBalancer"}

\* the copy method taken from the --copymethod flag: edition B falls back to
\* Snapshot when the flag cannot be read
CopyMethodOf(ed, cmf) == IF ed = "B" /\ cmf = FlagErr THEN "Snapshot" ELSE cmf

\* the access mode taken from the --accessmodes flag: edition B falls back to
\* ReadWriteOnce when the flag is empty
AccessModeOf(ed, amf) == IF ed = "B" /\ amf = "" THEN "ReadWriteOnce" ELSE amf

\* mrd := &migrationRelationshipDestination{}
EmptyMRD ==
    [Cluster |-> "", Namespace |-> "", PVCName |-> "", MDName |-> "",
     SSHKeyName |-> "", CopyMethod |-> "", Capacity |-> NoObj,
     AccessModes |-> <<>>, StorageClassName |-> Nil, ServiceType |-> Nil,
     Address |-> Nil, Port |-> Nil, SSHKeys |-> Nil]

\* the name newMigrationRelationshipDestination gives the destination object
\* (edition B leaves MDName unset)
MDNameOf(ed, ns, name) ==
    IF ed = "A" THEN ns \o "-" \o name \o "-migration-dest" ELSE ""

\* the context newMigrationRelationshipDestination resolves the client for:
\* mrd.Cluster, which nothing has set when newClient is called
ClientContext(xcr) == EmptyMRD.Cluster

\* what the function hands back: the error ("" for none), the record, the
\* PVC found, the client's context, the cluster calls made and the flags read
NewDestResult(e, m, p, cl, calls, read) ==
    [err |-> e, mrd |-> m, pvc |-> p, client |-> cl, calls |-> calls, read |-> read]

\* capacity, _ := resource.ParseQuantity(cap): the error is dropped, and the
\* quantity of a string that does not parse is the zero Quantity
QuantityOrZero(cap) ==
    IF ParseQuantity(cap) = NoObj THEN [value |-> 0, suffix |-> "", Format |-> ""]
    ELSE ParseQuantity(cap)

\* the record once the copy method, the identifier and the PVC are known
DestinationFields(ed, cm, xcr, pvcObj, cap, am, sc) ==
    LET named == [EmptyMRD EXCEPT !.CopyMethod = cm, !.PVCName = xcr.Name,
                                  !.Namespace = xcr.Namespace]
    IN  IF pvcObj = NoObj
        THEN [named EXCEPT !.Capacity = QuantityOrZero(cap),
                           !.AccessModes = <<am>>,
                           !.StorageClassName = IF ed = "A" THEN sc ELSE Nil]
        ELSE IF ed = "A"
             THEN [named EXCEPT !.Capacity = pvcObj.capacity,
                                !.AccessModes = pvcObj.accessModes,
                                !.StorageClassName = pvcObj.storageClassName,
                                !.Cluster = pvcObj.clusterName]
             ELSE named

\* newMigrationRelationshipDestination, given the flags (cmf, id, cap, amf,
\* sc, st), whether newClient succeeds, and the PVC the lookup returns
\* (NoObj when the Get fails for any reason)
NewMigrationRelationshipDestination(ed, cmf, id, clientOK, pvcObj, cap, amf, sc, st) ==
    LET cm == CopyMethodOf(ed, cmf)
        xcr == ParseXClusterName(id)
        ctx == ClientContext(xcr)
        am == AccessModeOf(ed, amf)
        m == DestinationFields(ed, cm, xcr, pvcObj, cap, am, sc)
        get == <<Step("NewClient", "ok"), Step("GetPVC", IF pvcObj = NoObj THEN "nil" ELSE "found")>>
        rdPVC == {"copymethod", "pvcname"}
        rdNew == IF ed = "A" THEN {"capacity", "accessmodes", "storageclass"}
                 ELSE {"capacity", "accessmodes"}
        rdAll == rdPVC \cup (IF pvcObj = NoObj THEN rdNew ELSE {}) \cup {"servicetype"}
    IN  IF ed = "A" /\ cmf = FlagErr
        THEN NewDestResult("FlagError", NoObj, NoObj, Nil, <<>>, {"copymethod"})
        ELSE IF ~CopyMethodSupported(ed, cm)
        THEN NewDestResult("UnsupportedCopyMethod", NoObj, NoObj, Nil, <<>>, {"copymethod"})
        ELSE IF xcr = NoObj
        THEN NewDestResult("MalformedIdentifier", NoObj, NoObj, Nil, <<>>, rdPVC)
        ELSE IF ~clientOK
        THEN NewDestResult("ClusterUnreachable", NoObj, NoObj, Nil,
                           <<Step("NewClient", "Error")>>, rdPVC)
        ELSE IF pvcObj = NoObj /\ cap = ""
        THEN NewDestResult("MissingCapacity", NoObj, pvcObj, ctx, get,
                           rdPVC \cup {"capacity"})
        ELSE IF pvcObj = NoObj /\ ~AccessModeSupported(am)
        THEN NewDestResult("UnsupportedAccessMode", NoObj, pvcObj, ctx, get,
                           rdPVC \cup {"capacity", "accessmodes"})
        ELSE IF ~ServiceTypeSupported(ed, st)
        THEN NewDestResult("UnsupportedServiceType", NoObj, pvcObj, ctx, get, rdAll)
        ELSE NewDestResult("",
                 [m EXCEPT !.ServiceType = st,
                           !.MDName = MDNameOf(ed, xcr.Namespace, xcr.Name)],
                 pvcObj, ctx, get, rdAll)

\* ------------------------------------------------- the relationship store
\* what the general-purpose serializer writes for a resource.Quantity: its
\* exported field only
SerializeQuantity(q) == IF q = NoObj THEN NoObj ELSE [Format |-> q.Format]

\* Quantity.String(): the canonical rendering
QuantityString(q) == Str(<<ToString(q.value), q.suffix>>)

\* what the serializer writes for migrationRelationshipData
SerializeData(data) ==
    [Version |-> data.Version,
     Destination |-> IF data.Destination = NoObj THEN NoObj
                     ELSE [data.Destination EXCEPT !.Capacity = SerializeQuantity(@)]]

\* mr.Set("data", mr.data) followed by mr.Set of keys below "data": the
\* first Set stores the struct itself under "data"; a Set of a nested key
\* finds a value that is no map on its path and puts a new map in its place,
\* so that `nested` (keyed in lower case, as Set does) is all that is left
\* under "data"
SetBelowData(nested) == "data" :> nested

\* migrationRelationship.Save of migration.go:75 (the struct edition B's Run
\* compiles against): the document it hands to Relationship.Save
SaveDocB(data) ==
    IF data.Destination # NoObj /\ data.Destination.Capacity # NoObj
    THEN SetBelowData([destination |-> [destination |->
             [capacity |-> QuantityString(data.Destination.Capacity)]]])
    ELSE "data" :> SerializeData(data)

\* migrationRelationship.Save of migration.go:191: the document it hands to
\* Relationship.Save
SaveDocA(data) ==
    LET d == data.Destination
    IN  IF d # NoObj /\ d.Capacity # NoObj
        THEN SetBelowData([destination |->
                 [cluster |-> d.Cluster, namespace |-> d.Namespace,
                  pvcname |-> d.PVCName, mdname |-> d.MDName,
                  spec |-> [servicetype |-> d.ServiceType,
                            accessmodes |-> d.AccessModes,
                            copymethod |-> d.CopyMethod,
                            capacity |-> QuantityString(d.Capacity),
                            storageclassname |-> d.StorageClassName],
                  rsync |-> [address |-> d.Address, port |-> d.Port,
                             sshkeys |-> d.SSHKeys]]])
        ELSE "data" :> SerializeData(data)

\* a Save that leaves the record to the serializer, capacity included
SaveDocSerialized(ed, data) == "data" :> SerializeData(data)

\* the document migrationRelationship.Save writes in edition ed
SaveDoc(ed, data) == IF ed = "A" THEN SaveDocA(data) ELSE SaveDocB(data)

\* ------------------------------------------------------------ the process
\* no flag read yet
NoFlags ==
    [copymethod |-> Unread, pvcname |-> <<>>, capacity |-> Unread,
     accessmodes |-> Unread, storageclass |-> Unread, servicetype |-> Unread,
     name |-> Unread, cronspec |-> <<>>]

\* a wait that has not polled yet: the time into the wait, the polls made,
\* the object fetched, the fetches made (when, the answer of the Get, the answer of the
\* condition), the object the last fetch returned and the error the wait
\* has returned
NoWait ==
    [elapsed |-> 0, polls |-> 0, key |-> <<>>, seen |-> <<>>, last |-> NoObj,
     failure |-> NoObj]

\* a Namespace object
NamespaceObj == [kind |-> "Namespace"]

\* the two editions of parseResticConfig a build of backup create can hold:
\* that of the create command's file, which requires the four keys, and
\* that of common_utils.go, which does not
LoaderEditions == {"part_000", "common_utils"}

\* a PVC that was on the cluster before the first invocation
OldPVC ==
    [capacity |-> ParseQuantity("5Gi"), accessModes |-> <<"ReadWriteMany">>,
     storageClassName |-> "gold", clusterName |-> ""]

\* the clusters the create flows start on
Clusters ==
    { <<>>,
      NamespaceKey("", "n") :> NamespaceObj,
      (NamespaceKey("", "n") :> NamespaceObj) @@ (PVCKey("", "n", "v") :> OldPVC),
      (NamespaceKey("", "n") :> NamespaceObj) @@ (NamespaceKey("c", "n") :> NamespaceObj) }

\* a ReplicationSource as waitForSync reads it: the trigger of its spec
\* (NoObj for nil) and its status
SyncSourceObj(trigger, status) ==
    [SourcePVC |-> "v", Trigger |-> trigger, Status |-> status]

\* the object waitForSync is called for
SyncKey == RSKey("", "n", "nightly-backup-source")

\* the clusters waitForSync is called on: without the object, and with it,
\* its manual trigger unset, empty or set, its status absent or stale
SyncClusters ==
    { NamespaceKey("", "n") :> NamespaceObj } \cup
    { (NamespaceKey("", "n") :> NamespaceObj) @@ (SyncKey :> SyncSourceObj(t, st)) :
         t \in {NoObj, [Manual |-> ""], [Manual |-> "m1"]},
         st \in {NoObj, [LastManualSync |-> "m0"]} }

Init ==
    /\ store = <<>>
    /\ pc = "idle"
    /\ \/ flow = "migration" /\ edition \in {"A", "B"} /\ cluster \in Clusters
       \/ flow = "backup" /\ edition \in LoaderEditions /\ cluster \in Clusters
       \/ flow = "sync" /\ edition = "-" /\ cluster \in SyncClusters
    /\ disk = NoObj
    /\ bk = NoObj
    /\ runs = 0
    /\ flags = NoFlags
    /\ rel = NoObj
    /\ mrd = NoObj
    /\ pvc = NoObj
    /\ client = Nil
    /\ wait = NoWait
    /\ log = <<>>
    /\ err = ""
    /\ ret = "pending"
    /\ aborted = NoObj

\* a new invocation of the CLI: the process starts with nothing but the
\* cluster, the relationship store and the disk the runs before it left
Invoke ==
    /\ pc \in {"idle", "done"}
    /\ runs < MaxRuns
    /\ runs' = runs + 1
    /\ pc' = CASE flow = "migration" -> "args"
               [] flow = "backup" -> "newcreate"
               [] OTHER -> "syncwait"
    /\ IF flow = "backup" THEN disk' \in ResticFiles ELSE UNCHANGED disk
    /\ bk' = NoObj
    /\ flags' = NoFlags
    /\ rel' = NoObj
    /\ mrd' = NoObj
    /\ pvc' = NoObj
    /\ client' = IF flow = "sync" THEN "" ELSE Nil
    /\ wait' = NoWait
    /\ log' = <<>>
    /\ err' = ""
    /\ ret' = "pending"
    /\ UNCHANGED <<cluster, store, flow, edition, aborted>>

\* the run has made the steps `entries`, the last with error e ("" for nil):
\* it goes on at `next` and the command has returned r ("pending": not yet)
Proceed(entries, e, next, r) ==
    /\ log' = log \o entries
    /\ err' = IF e # "" THEN e ELSE err
    /\ pc' = next
    /\ ret' = r

\* the command ends at step op with error e, returning r
Abort(op, e, r) == Proceed(<<Step(op, e)>>, e, "done", r)

\* a Run whose wait is entered again after it returned
MigNextWaitAgain(ed, step, e, havePVC) ==
    IF e # "" THEN "done"
    ELSE CASE step = "NewRelationship" -> IF ed = "B" THEN "earlysave" ELSE "newdest"
           [] step = "EarlySave" -> "newdest"
           [] step = "NewDestination" -> "createns"
           [] step = "CreateNamespace" -> IF havePVC THEN "createdest" ELSE "createpvc"
           [] step = "CreatePVC" -> "createdest"
           [] step = "CreateDestination" -> IF ed = "A" THEN "wait" ELSE "done"
           [] step = "Wait" -> "wait"
           [] OTHER -> "done"

\* where migrationCreate.Run (and createDestination, which holds the wait of
\* edition A) goes after `step` returned e: any error ends the run
MigNext(ed, step, e, havePVC) ==
    IF e # "" THEN "done"
    ELSE CASE step = "NewRelationship" -> IF ed = "B" THEN "earlysave" ELSE "newdest"
           [] step = "EarlySave" -> "newdest"
           [] step = "NewDestination" -> "createns"
           [] step = "CreateNamespace" -> IF havePVC THEN "createdest" ELSE "createpvc"
           [] step = "CreatePVC" -> "createdest"
           [] step = "CreateDestination" -> IF ed = "A" THEN "wait" ELSE "done"
           [] step = "Wait" -> "save"
           [] OTHER -> "done"

\* what migrationCreate.Run returns once `step` returned e: edition A hands
\* every error on; edition B hands on the errors of newmigrationRelationship
\* and Save and returns nil for the rest
MigReturn(ed, step, e, havePVC) ==
    IF e # ""
    THEN IF ed = "A" \/ step \in {"NewRelationship", "EarlySave", "Save"}
         THEN "error" ELSE "nil"
    ELSE IF MigNext(ed, step, e, havePVC) = "done" THEN "nil" ELSE "pending"

\* a step of the migration run, logged as `entries`, returned e
MigStep(step, entries, e, havePVC) ==
    Proceed(entries, e, MigNext(edition, step, e, havePVC),
            MigReturn(edition, step, e, havePVC))

\* validateMigrationCreate, the command's Args check: the capacity, when
\* given, parses as a quantity, and the PVC name parses as an identifier
MigValidateArgs ==
    /\ pc = "args" /\ flow = "migration"
    /\ \E cap \in CapacityFlags, id \in PvcNameFlags :
          /\ flags' = [flags EXCEPT !.capacity = cap, !.pvcname = id]
          /\ IF cap # "" /\ ParseQuantity(cap) = NoObj
             THEN Abort("ValidateArgs", "InvalidCapacity", "error")
             ELSE IF ParseXClusterName(id) = NoObj
             THEN Abort("ValidateArgs", "MalformedIdentifier", "error")
             ELSE Proceed(<<Step("ValidateArgs", "ok")>>, "", "newrel", "pending")
    /\ UNCHANGED <<cluster, store, flow, edition, aborted, runs, rel, mrd, pvc, client,
                   disk, bk, wait>>

\* Run: m, err := newmigrationRelationship(&cmd.Command)
MigNewRelationship ==
    /\ pc = "newrel" /\ flow = "migration"
    /\ \E e \in {"", "RelationshipError"} :
          /\ rel' = IF e = "" THEN [Version |-> 1, Source |-> NoObj, Destination |-> NoObj]
                    ELSE rel
          /\ MigStep("NewRelationship", <<Step("NewRelationship", IF e = "" THEN "ok" ELSE e)>>,
                     e, FALSE)
    /\ UNCHANGED <<cluster, store, flow, edition, aborted, runs, flags, mrd, pvc, client,
                   disk, bk, wait>>

\* Relationship.Save(): the document is written to the relationship file of
\* the given type (""), or the write fails ("StoreIOError")
SaveResults == {"", "StoreIOError"}
AfterSave(type, doc, e) == IF e = "" THEN (type :> doc) @@ store ELSE store

\* edition B's Run: m.Save() right after the relationship is built
MigEarlySave ==
    /\ pc = "earlysave" /\ flow = "migration"
    /\ \E e \in SaveResults :
          /\ store' = AfterSave("migration", SaveDoc(edition, rel), e)
          /\ MigStep("EarlySave", <<Step("Save", IF e = "" THEN "ok" ELSE e)>>, e, FALSE)
    /\ UNCHANGED <<cluster, flow, edition, aborted, runs, flags, rel, mrd, pvc, client,
                   disk, bk, wait>>

\* Run: mrd, err := newMigrationRelationshipDestination(cmd)
MigNewDestination ==
    /\ pc = "newdest" /\ flow = "migration"
    /\ \E cmf \in RunCopyMethodFlags(edition), clientOK \in BOOLEAN, amf \in RunAccessModeFlags,
          sc \in StorageClassFlags, st \in RunServiceTypeFlags :
        LET xcr == ParseXClusterName(flags.pvcname)
            key == PVCKey(ClientContext(xcr), xcr.Namespace, xcr.Name)
        IN  \E g \in GetResults(key) :
              LET r == NewMigrationRelationshipDestination(edition, cmf,
                          flags.pvcname, clientOK,
                          IF g = "Found" THEN cluster[key] ELSE NoObj,
                          flags.capacity, amf, sc, st)
              IN  /\ flags' = [flags EXCEPT
                        !.copymethod = IF "copymethod" \in r.read THEN cmf ELSE @,
                        !.accessmodes = IF "accessmodes" \in r.read THEN amf ELSE @,
                        !.storageclass = IF "storageclass" \in r.read THEN sc ELSE @,
                        !.servicetype = IF "servicetype" \in r.read THEN st ELSE @]
                  /\ mrd' = r.mrd
                  /\ pvc' = r.pvc
                  /\ client' = r.client
                  /\ MigStep("NewDestination",
                             r.calls \o <<Step("NewDestination",
                                               IF r.err = "" THEN "ok" ELSE r.err)>>,
                             r.err, FALSE)
    /\ UNCHANGED <<cluster, store, flow, edition, aborted, runs, rel, disk, bk, wait>>

\* a createNamespace that hands every error of its Create on, the
\* already-exists answer included: not what createNamespace does
CreateNamespaceErrorStrict(res) == IF res = "Created" THEN "" ELSE res

\* what createNamespace returns for the answer of its Create ("" for nil):
\* an already-exists answer is success
CreateNamespaceError(res) == IF res \in {"Created", "AlreadyExists"} THEN "" ELSE res

\* createNamespace
MigCreateNamespace ==
    /\ pc = "createns" /\ flow = "migration"
    /\ LET key == NamespaceKey(client, mrd.Namespace)
       IN  \E res \in CreateResults(key) :
             /\ cluster' = AfterCreate(key, NamespaceObj, res)
             /\ MigStep("CreateNamespace", <<Step("CreateNamespace", res)>>,
                        CreateNamespaceError(res), pvc # NoObj)
    /\ UNCHANGED <<store, flow, edition, aborted, runs, flags, rel, mrd, pvc, client,
                   disk, bk, wait>>

\* the PVC createDestinationPVC submits: edition A leaves the storage class
\* out when it is empty, edition B never sets one
DestinationPVC(ed, m) ==
    [capacity |-> m.Capacity, accessModes |-> m.AccessModes,
     storageClassName |-> IF ed = "A" /\ m.StorageClassName # "" THEN m.StorageClassName
                          ELSE Nil,
     clusterName |-> ""]

\* a create that takes the object it finds for its own
CreateErrorAdopts(res) == IF res \in {"Created", "AlreadyExists"} THEN "" ELSE res

\* what a plain create returns for the answer of its Create ("" for nil)
CreateError(res) == IF res = "Created" THEN "" ELSE res

\* Run: if cmd.PVC == nil { cmd.PVC, err = createDestinationPVC(cmd, mrd) }
MigCreatePVC ==
    /\ pc = "createpvc" /\ flow = "migration"
    /\ LET key == PVCKey(client, mrd.Namespace, mrd.PVCName)
           obj == DestinationPVC(edition, mrd)
       IN  \E res \in CreateResults(key) :
             /\ cluster' = AfterCreate(key, obj, res)
             /\ pvc' = IF res = "Created" THEN obj ELSE pvc
             /\ mrd' = IF res = "Created" /\ edition = "A"
                       THEN [mrd EXCEPT !.StorageClassName = obj.storageClassName]
                       ELSE mrd
             /\ MigStep("CreatePVC", <<Step("CreatePVC", res)>>, CreateError(res), TRUE)
    /\ UNCHANGED <<store, flow, edition, aborted, runs, flags, rel, client, disk, bk, wait>>

\* the name the ReplicationDestination is created under
DestinationName(ed, m) ==
    IF ed = "A" THEN m.MDName
    ELSE m.Namespace \o "-" \o m.PVCName \o "-replication-dest"

\* the ReplicationDestination createDestination / CreateDestination submits
DestinationObj(m) ==
    [CopyMethod |-> m.CopyMethod, DestinationPVC |-> m.PVCName,
     ServiceType |-> m.ServiceType, Status |-> NoObj]

\* createDestination up to its wait (edition A), CreateDestination (edition
\* B): the create of the ReplicationDestination
MigCreateDestination ==
    /\ pc = "createdest" /\ flow = "migration"
    /\ LET key == RDKey(client, mrd.Namespace, DestinationName(edition, mrd))
       IN  \E res \in CreateResults(key) :
             /\ cluster' = AfterCreate(key, DestinationObj(mrd), res)
             /\ MigStep("CreateDestination", <<Step("CreateDestination", res)>>,
                        CreateError(res), TRUE)
    /\ wait' = NoWait
    /\ UNCHANGED <<store, flow, edition, aborted, runs, flags, rel, mrd, pvc, client, disk, bk>>

\* a wait that takes the condition's error for "not yet"
PollOutcomeRetryOnError(c, elapsed, timeout) ==
    IF c \in {"retry", "error"}
    THEN IF elapsed >= timeout THEN "timeout" ELSE "retry"
    ELSE c

\* a wait that gives up one interval before the timeout
PollOutcomeEarly(c, elapsed, timeout) ==
    IF c = "retry" /\ elapsed + PollInterval >= timeout THEN "timeout" ELSE c

\* wait.PollImmediate once the condition answered c on a fetch made `elapsed`
\* seconds into the wait: the condition's error and "ready" end the wait, a
\* "retry" ends it only when the timeout has passed
PollOutcome(c, elapsed, timeout) ==
    IF c = "retry" /\ elapsed >= timeout THEN "timeout" ELSE c

\* one fetch of a wait: made `at` seconds into the wait, the Get answered g
\* and the condition c
Fetch(at, g, c) == [at |-> at, get |-> g, cond |-> c]

\* the smaller of two numbers
Min(a, b) == IF a < b THEN a ELSE b

\* an error as its caller sees it: the kind, the text of the message, and
\* the object names and object states formatted into the message
Failure(kind, text, names, states) ==
    [kind |-> kind, text |-> text, names |-> names, states |-> states]

\* the message of the errors wait.PollImmediate hands on: its own
\* ErrWaitTimeout, or the error of the condition
ErrorText(e) ==
    IF e = "WaitTimeout" THEN "timed out waiting for the condition" ELSE e

\* a wait whose clock starts again with every poll, and which keeps the
\* last fetch only
AfterPollClockReset(o, timeout, key, g, obj, c, f) ==
    [elapsed |-> 0,
     polls |-> 1 + (wait.polls % 2),
     key |-> key,
     seen |-> <<Fetch(0, g, c)>>,
     last |-> IF g = "Found" THEN obj ELSE wait.last,
     failure |-> f]

\* the wait after a poll, made wait.elapsed seconds in, whose Get of key
\* answered g with object obj, whose condition answered c and whose outcome is o: the
\* next poll comes an interval later, or when the timeout fires if that is
\* sooner; f is the error the wait returns (NoObj while it goes on or when
\* it succeeds)
AfterPoll(o, timeout, key, g, obj, c, f) ==
    [elapsed |-> IF o = "retry" THEN Min(wait.elapsed + PollInterval, timeout)
                 ELSE wait.elapsed,
     polls |-> wait.polls + 1,
     key |-> key,
     seen |-> Append(wait.seen, Fetch(wait.elapsed, g, c)),
     last |-> IF g = "Found" THEN obj ELSE wait.last,
     failure |-> f]

\* the error wait.PollImmediate returns for outcome o ("" for nil)
PollError(o) ==
    CASE o = "ready" -> ""
      [] o = "timeout" -> "WaitTimeout"
      [] o = "panic" -> "NilPointer"
      [] o = "internal" -> "InternalError"
      [] OTHER -> "GetError"

\* the error createDestination returns when its wait ended with outcome o,
\* and Run returns as it is: the error of wait.PollImmediate, nothing added
DestinationWaitFailure(o) ==
    IF o \in {"retry", "ready", "panic"} THEN NoObj
    ELSE Failure(PollError(o), <<ErrorText(PollError(o))>>, {}, {})

\* the condition of createDestination's wait on a fetched object: "ready",
\* "retry", or "panic" when the status has no rsync part to read
DestinationCondition(rd) ==
    IF rd.Status = NoObj THEN "retry"
    ELSE IF rd.Status.Rsync = NoObj THEN "panic"
    ELSE IF rd.Status.Rsync.Address = Nil THEN "retry"
    ELSE IF rd.Status.Rsync.SSHKeys = Nil THEN "retry"
    ELSE "ready"

\* one poll of wait.PollImmediate in createDestination, and on success the
\* copy of address, port and keys into the record
MigPoll ==
    /\ pc = "wait" /\ flow = "migration"
    /\ LET key == RDKey(client, mrd.Namespace, mrd.MDName)
       IN  \E g \in GetResults(key) :
             LET c == IF g = "Found" THEN DestinationCondition(cluster[key]) ELSE "error"
                 o == PollOutcome(c, wait.elapsed, DestinationTimeout)
                 obj == IF g = "Found" THEN cluster[key] ELSE NoObj
                 rs == cluster[key].Status.Rsync
             IN  /\ wait' = AfterPoll(o, DestinationTimeout, key, g, obj, c,
                                      DestinationWaitFailure(o))
                 /\ mrd' = IF o = "ready"
                           THEN [mrd EXCEPT !.Address = rs.Address, !.Port = rs.Port,
                                            !.SSHKeys = rs.SSHKeys]
                           ELSE mrd
                 /\ CASE o = "retry" -> UNCHANGED <<pc, err, ret, log>>
                      [] o = "panic" -> Abort("Wait", PollError(o), "panic")
                      [] OTHER ->
                           MigStep("Wait", <<Step("Wait", IF o = "ready" THEN "ok"
                                                          ELSE PollError(o))>>,
                                   PollError(o), TRUE)
    /\ UNCHANGED <<cluster, store, flow, edition, aborted, runs, flags, rel, pvc, client,
                   disk, bk>>

\* edition A's Run: m.data.Destination = mrd; m.Save()
MigSave ==
    /\ pc = "save" /\ flow = "migration"
    /\ rel' = [rel EXCEPT !.Destination = mrd]
    /\ \E e \in SaveResults :
          /\ store' = AfterSave("migration", SaveDoc(edition, rel'), e)
          /\ MigStep("Save", <<Step("Save", IF e = "" THEN "ok" ELSE e)>>, e, TRUE)
    /\ UNCHANGED <<cluster, flow, edition, aborted, runs, flags, mrd, pvc, client, disk, bk, wait>>

\* ------------------------------------------------------- backup: the CLI
\* the fields a five-field cron expression of the model can hold
CronFieldOK(f) == f \in {"*", "*/5", "0", "2"}

\* the named schedules the parser knows
CronDescriptors ==
    {"@yearly", "@annually", "@monthly", "@weekly", "@daily", "@midnight", "@hourly"}

\* parseCronSpec: whether cron.Parser.Parse accepts the expression (minute,
\* hour, day of month, month, day of week, or a descriptor); the parser
\* refuses an empty string
ParseCronSpecOK(fs) ==
    IF Len(fs) = 0 THEN FALSE
    ELSE IF Len(fs) = 1 /\ fs[1] \in CronDescriptors THEN TRUE
    ELSE Len(fs) = 5 /\ \A i \in 1..5 : CronFieldOK(fs[i])

\* the four keys parseResticConfig requires
ResticKeys ==
    {"AWS_ACCESS_KEY_ID", "AWS_SECRET_ACCESS_KEY", "RESTIC_REPOSITORY", "RESTIC_PASSWORD"}

\* parseResticConfig: the error it returns for the file at the path, "" for
\* none
ParseResticConfig(ed, file) ==
    IF file = NoObj THEN "ConfigNotFound"
    ELSE IF ed = "part_000" /\ \E k \in ResticKeys : file[k] = NoObj
    THEN "MissingCredentialField"
    ELSE ""

\* v.(string) succeeds: viper.Get found the key and its value is a string
IsString(v) == IF v = NoObj THEN FALSE ELSE v.type = "string"

\* pc := &pvBackupCreate{}
EmptyBackupCreate ==
    [Cluster |-> "", Namespace |-> "", SourcePVC |-> "", Name |-> "", RSName |-> "",
     Repository |-> "", schedule |-> "", resticConfig |-> NoObj]

\* what parseCLI hands back: the error ("" for nil), the struct and the
\* flags read
ParseCLIResult(e, b, read) == [err |-> e, bk |-> b, read |-> read]

\* pvBackupCreate.parseCLI, given the flags and the file at --restic-config
ParseCLI(ed, id, name, file, cron) ==
    LET xcr == ParseXClusterName(id)
        named == [EmptyBackupCreate EXCEPT
                     !.SourcePVC = xcr.Name, !.Namespace = xcr.Namespace,
                     !.Cluster = xcr.Cluster, !.Name = name,
                     !.RSName = name \o "-backup-source"]
        loaded == [named EXCEPT !.resticConfig = file]
        rd3 == {"pvcname", "name", "restic-config"}
    IN  IF id = <<>>
        THEN ParseCLIResult("FlagError", EmptyBackupCreate, {"pvcname"})
        ELSE IF xcr = NoObj
        THEN ParseCLIResult("MalformedIdentifier", EmptyBackupCreate, {"pvcname"})
        ELSE IF ParseResticConfig(ed, file) # ""
        THEN ParseCLIResult(ParseResticConfig(ed, file), named, rd3)
        ELSE IF ~IsString(file.RESTIC_REPOSITORY)
        THEN ParseCLIResult("", loaded, rd3)
        ELSE IF ~ParseCronSpecOK(cron)
        THEN ParseCLIResult("InvalidSchedule",
                            [loaded EXCEPT !.Repository = file.RESTIC_REPOSITORY.val],
                            rd3 \cup {"cronspec"})
        ELSE ParseCLIResult("",
                 [loaded EXCEPT !.Repository = file.RESTIC_REPOSITORY.val,
                                !.schedule = Join(cron, " ")],
                 rd3 \cup {"cronspec"})

\* a Run that goes on to the save whatever the wait returned: not what
\* pvBackupCreate.Run does
BkNextSaveAnyway(step, e) ==
    IF step = "Wait" THEN "bksave"
    ELSE IF e # "" THEN "done"
    ELSE CASE step = "NewRelationship" -> "parsecli"
           [] step = "ParseCLI" -> "bkclient"
           [] step = "NewClient" -> "bksecret"
           [] step = "EnsureSecret" -> "bksource"
           [] step = "CreateSource" -> "bkwait"
           [] OTHER -> "done"

\* where the backup command (RunE: newPVBackupCreate, then Run) goes after
\* `step` returned e: any error ends the run
BkNext(step, e) ==
    IF e # "" THEN "done"
    ELSE CASE step = "NewRelationship" -> "parsecli"
           [] step = "ParseCLI" -> "bkclient"
           [] step = "NewClient" -> "bksecret"
           [] step = "EnsureSecret" -> "bksource"
           [] step = "CreateSource" -> "bkwait"
           [] step = "Wait" -> "bksave"
           [] OTHER -> "done"

\* what the backup command returns once `step` returned e: every error is
\* handed on
BkReturn(step, e) ==
    IF e # "" THEN "error"
    ELSE IF BkNext(step, e) = "done" THEN "nil" ELSE "pending"

\* a step of the backup run, logged as `entries`, returned e
BkStep(step, entries, e) == Proceed(entries, e, BkNext(step, e), BkReturn(step, e))

\* newPVBackupCreate: the relationship is built and the command line parsed
BkNewCreate ==
    /\ pc = "newcreate" /\ flow = "backup"
    /\ \E re \in {"", "RelationshipError"}, id \in PvcNameFlags \cup {<<>>},
          nc \in BackupRunFlags :
        LET name == nc[1]
            cron == nc[2]
            r == ParseCLI(edition, id, name, disk, cron)
        IN  IF BkNext("NewRelationship", re) = "parsecli"
            THEN /\ flags' = [flags EXCEPT
                        !.pvcname = id,
                        !.name = IF "name" \in r.read THEN name ELSE @,
                        !.cronspec = IF "cronspec" \in r.read THEN cron ELSE @]
                 /\ bk' = r.bk
                 /\ rel' = [Version |-> 1, Source |-> NoObj]
                 /\ BkStep("ParseCLI",
                           <<Step("NewRelationship", "ok"),
                             Step("ParseCLI", IF r.err = "" THEN "ok" ELSE r.err)>>,
                           r.err)
            ELSE /\ BkStep("NewRelationship", <<Step("NewRelationship", re)>>, re)
                 /\ UNCHANGED <<flags, rel, bk>>
    /\ UNCHANGED <<cluster, store, flow, edition, aborted, runs, mrd, pvc, client, disk, wait>>

\* a source record that takes the backup's name for the source's name
NewPVBackupRelationshipPlainName(b) ==
    [Cluster |-> b.Cluster, Namespace |-> b.Namespace, PVCName |-> b.SourcePVC,
     RSName |-> b.Name, Repository |-> b.Repository, Schedule |-> b.schedule]

\* pvBackupCreate.newPVBackupRelationship: the source side of the record
NewPVBackupRelationship(b) ==
    [Cluster |-> b.Cluster, Namespace |-> b.Namespace, PVCName |-> b.SourcePVC,
     RSName |-> b.RSName, Repository |-> b.Repository, Schedule |-> b.schedule]

\* Run: the client is resolved for pc.Cluster and the source record built
BkNewClient ==
    /\ pc = "bkclient" /\ flow = "backup"
    /\ \E e \in {"", "ClusterUnreachable"} :
          /\ client' = IF e = "" THEN bk.Cluster ELSE client
          /\ rel' = IF e = "" THEN [rel EXCEPT !.Source = NewPVBackupRelationship(bk)]
                    ELSE rel
          /\ BkStep("NewClient", <<Step("NewClient", IF e = "" THEN "ok" ELSE e)>>, e)
    /\ UNCHANGED <<cluster, store, flow, edition, aborted, runs, flags, mrd, pvc, disk, bk, wait>>

\* the Secret pvBackupCreate.ensureSecret submits
SecretObj(b) ==
    [StringData |-> [k \in ResticKeys |-> b.resticConfig[k].val]]

\* what pvBackupCreate.ensureSecret returns for the answer of its Create:
\* "" for nil
EnsureSecretError(res) == IF res = "Created" THEN "" ELSE res

\* pvBackupCreate.ensureSecret: the four values are asserted to be strings,
\* the Secret is created
BkEnsureSecret ==
    /\ pc = "bksecret" /\ flow = "backup"
    /\ LET key == SecretKey(client, bk.Namespace, bk.Name)
       IN  IF \E k \in ResticKeys : ~IsString(bk.resticConfig[k])
           THEN /\ Abort("EnsureSecret", "TypeAssertion", "panic")
                /\ UNCHANGED cluster
           ELSE \E res \in CreateResults(key) :
                  /\ cluster' = AfterCreate(key, SecretObj(bk), res)
                  /\ BkStep("EnsureSecret", <<Step("EnsureSecret", res)>>,
                            EnsureSecretError(res))
    /\ UNCHANGED <<store, flow, edition, aborted, runs, flags, rel, mrd, pvc, client, disk, bk, wait>>

\* the ReplicationSource pvBackupCreate.ensureReplicationSource submits
SourceObj(prs) ==
    [SourcePVC |-> prs.PVCName, Schedule |-> prs.Schedule, Manual |-> "",
     Repository |-> prs.Repository, CopyMethod |-> "Clone", Status |-> NoObj]

\* pvBackupCreate.ensureReplicationSource: the create of the
\* ReplicationSource
BkEnsureReplicationSource ==
    /\ pc = "bksource" /\ flow = "backup"
    /\ LET key == RSKey(client, rel.Source.Namespace, rel.Source.RSName)
       IN  \E res \in CreateResults(key) :
             /\ cluster' = AfterCreate(key, SourceObj(rel.Source), res)
             /\ BkStep("CreateSource", <<Step("CreateSource", res)>>, CreateError(res))
    /\ wait' = NoWait
    /\ UNCHANGED <<store, flow, edition, aborted, runs, flags, rel, mrd, pvc, client, disk, bk>>

\* the error waitForRSStatus returns when its wait ended with outcome o, and
\* Run returns as it is: the error of wait.PollImmediate wrapped in a fixed
\* text
SourceWaitFailure(o) ==
    IF o \in {"retry", "ready"} THEN NoObj
    ELSE Failure(PollError(o),
                 <<"failed to fetch rs status: ", ErrorText(PollError(o)), ",">>, {}, {})

\* a condition that waits for a status whose fields are filled in
SourceConditionSynced(rs) ==
    IF rs.Status = NoObj THEN "retry"
    ELSE IF rs.Status.LastManualSync = "" THEN "retry"
    ELSE "ready"

\* the condition of waitForRSStatus on a fetched object
SourceCondition(rs) == IF rs.Status = NoObj THEN "retry" ELSE "ready"

\* one poll of wait.PollImmediate in waitForRSStatus
BkPoll ==
    /\ pc = "bkwait" /\ flow = "backup"
    /\ LET key == RSKey(client, rel.Source.Namespace, rel.Source.RSName)
       IN  \E g \in GetResults(key) :
             LET c == IF g = "Found" THEN SourceCondition(cluster[key]) ELSE "error"
                 o == PollOutcome(c, wait.elapsed, RsyncKeyTimeout)
                 obj == IF g = "Found" THEN cluster[key] ELSE NoObj
             IN  /\ wait' = AfterPoll(o, RsyncKeyTimeout, key, g, obj, c,
                                      SourceWaitFailure(o))
                 /\ IF o = "retry"
                    THEN UNCHANGED <<pc, err, ret, log>>
                    ELSE BkStep("Wait", <<Step("Wait", IF o = "ready" THEN "ok"
                                                       ELSE PollError(o))>>,
                                PollError(o))
    /\ UNCHANGED <<cluster, store, flow, edition, aborted, runs, flags, rel, mrd, pvc,
                   client, disk, bk>>

\* pvBackupRelationship.Save: the document it hands to Relationship.Save
BackupDoc(data) == "data" :> data

\* a Run that removes the config file whatever Save returned
AfterRemoveAlways(e, d) == {NoObj, d}

\* what can be at the --restic-config path once Run has ended with Save
\* returning e: os.Remove is reached only after a Save that succeeded, and
\* it can fail
AfterRemove(e, d) == IF e = "" THEN {NoObj, d} ELSE {d}

\* Run: pc.pr.Save(), then os.Remove of the restic config file, whose result
\* is not looked at
BkSave ==
    /\ pc = "bksave" /\ flow = "backup"
    /\ \E e \in SaveResults :
          /\ store' = AfterSave("PVBackup", BackupDoc(rel), e)
          /\ BkStep("Save", <<Step("Save", IF e = "" THEN "ok" ELSE e)>>, e)
          /\ disk' \in AfterRemove(e, disk)
    /\ UNCHANGED <<cluster, flow, edition, aborted, runs, flags, rel, mrd, pvc, client, bk, wait>>

\* ------------------------------------------------------------- waitForSync
\* a condition that keeps polling an object whose manual trigger is not set,
\* and takes any recorded sync for the one it waits for
SyncConditionAnySync(rs) ==
    IF rs.Status = NoObj THEN "retry"
    ELSE IF rs.Trigger = NoObj THEN "retry"
    ELSE "ready"

\* the condition of waitForSync on a fetched object: "internal" is its
\* error for an object with no manual trigger
SyncCondition(rs) ==
    IF rs.Trigger = NoObj THEN "internal"
    ELSE IF rs.Trigger.Manual = "" THEN "internal"
    ELSE IF rs.Status = NoObj THEN "retry"
    ELSE IF rs.Status.LastManualSync # rs.Trigger.Manual THEN "retry"
    ELSE "ready"

\* the error waitForSync returns when its wait ended with outcome o: the
\* error of wait.PollImmediate, nothing added
SyncWaitFailure(o) ==
    IF o \in {"retry", "ready"} THEN NoObj
    ELSE Failure(PollError(o),
                 <<IF o = "internal" THEN "internal error: manual trigger not specified"
                   ELSE ErrorText(PollError(o))>>, {}, {})

\* one poll of wait.PollImmediate in waitForSync; the wait's error is what
\* waitForSync returns
SyncPoll ==
    /\ pc = "syncwait" /\ flow = "sync"
    /\ \E g \in GetResults(SyncKey) :
          LET c == IF g = "Found" THEN SyncCondition(cluster[SyncKey]) ELSE "error"
              o == PollOutcome(c, wait.elapsed, VolumeSyncTimeout)
              obj == IF g = "Found" THEN cluster[SyncKey] ELSE NoObj
          IN  /\ wait' = AfterPoll(o, VolumeSyncTimeout, SyncKey, g, obj, c,
                                   SyncWaitFailure(o))
              /\ IF o = "retry"
                 THEN UNCHANGED <<pc, err, ret, log>>
                 ELSE Proceed(<<Step("Wait", IF o = "ready" THEN "ok" ELSE PollError(o))>>,
                              PollError(o), "done",
                              IF o = "ready" THEN "nil" ELSE "error")
    /\ UNCHANGED <<cluster, store, flow, edition, aborted, runs, flags, rel, mrd, pvc,
                   client, disk, bk>>

\* the process is terminated while createDestination sleeps between two
\* polls of its wait: nothing is returned, nothing is undone, nothing is
\* saved
Kill ==
    /\ pc = "wait" /\ flow = "migration"
    /\ pc' = "done"
    /\ ret' = "killed"
    /\ aborted' = flags
    /\ UNCHANGED <<cluster, store, flow, edition, runs, flags, rel, mrd, pvc,
                   client, disk, bk, wait, log, err>>

\* ---------------------------------------------------------- the controller
\* the external controller fills in the status of a ReplicationDestination,
\* one part at a time.  The CLI reads a status only in the fetches of its
\* wait, so the steps the controller takes before the wait are the steps it
\* takes here before the first fetch.
ControllerDestination ==
    \E k \in DOMAIN cluster :
        /\ pc = "wait" /\ flow = "migration"
        /\ k = RDKey(client, mrd.Namespace, mrd.MDName)
        /\ LET st == cluster[k].Status
               empty == [Address |-> Nil, Port |-> Nil, SSHKeys |-> Nil]
           IN  \E new \in
                   IF st = NoObj THEN {[Rsync |-> NoObj], [Rsync |-> empty]}
                   ELSE IF st.Rsync = NoObj THEN {[Rsync |-> empty]}
                   ELSE {[Rsync |-> [st.Rsync EXCEPT !.Address = "10.0.0.1", !.Port = "22"]],
                         [Rsync |-> [st.Rsync EXCEPT !.SSHKeys = "keys"]]} \ {st} :
                 cluster' = [cluster EXCEPT ![k].Status = new]
        /\ UNCHANGED <<store, pc, flow, edition, aborted, runs, flags, rel, mrd, pvc,
                       client, disk, bk, wait, log, err, ret>>

\* the statuses the controller gives a ReplicationSource: one with no field
\* filled in yet, one that records a sync
SourceStatuses == {[LastManualSync |-> ""], [LastManualSync |-> "m1"]}

\* the external controller gives a ReplicationSource its status
ControllerSource ==
    /\ pc = "bkwait" /\ flow = "backup"
    /\ LET k == RSKey(client, rel.Source.Namespace, rel.Source.RSName)
       IN  /\ Exists(k)
           /\ cluster[k].Status = NoObj
           /\ \E st \in SourceStatuses :
                 cluster' = [cluster EXCEPT ![k].Status = st]
    /\ UNCHANGED <<store, pc, flow, edition, aborted, runs, flags, rel, mrd, pvc,
                   client, disk, bk, wait, log, err, ret>>

\* the external controller records a manual sync: the status appears, and
\* its marker takes the value of the trigger
ControllerSync ==
    /\ pc = "syncwait" /\ flow = "sync"
    /\ Exists(SyncKey)
    /\ LET rs == cluster[SyncKey]
       IN  \E new \in
               {[LastManualSync |-> ""]} \cup
               (IF rs.Trigger = NoObj THEN {}
                ELSE {[LastManualSync |-> rs.Trigger.Manual]}) :
             /\ new # rs.Status
             /\ cluster' = [cluster EXCEPT ![SyncKey].Status = new]
    /\ UNCHANGED <<store, pc, flow, edition, aborted, runs, flags, rel, mrd, pvc,
                   client, disk, bk, wait, log, err, ret>>

Next ==
    \/ Invoke
    \/ MigValidateArgs
    \/ MigNewRelationship
    \/ MigEarlySave
    \/ MigNewDestination
    \/ MigCreateNamespace
    \/ MigCreatePVC
    \/ MigCreateDestination
    \/ MigPoll
    \/ MigSave
    \/ Kill
    \/ ControllerDestination
    \/ BkNewCreate
    \/ BkNewClient
    \/ BkEnsureSecret
    \/ BkEnsureReplicationSource
    \/ BkPoll
    \/ BkSave
    \/ ControllerSource
    \/ SyncPoll
    \/ ControllerSync

Spec == Init /\ [][Next]_vars

\* ------------------------- newMigrationRelationshipDestination on its own
\* the clusters the function is called against
ClustersNewDest ==
    { <<>>,
      NamespaceKey("", "n") :> NamespaceObj,
      (NamespaceKey("", "n") :> NamespaceObj) @@ (PVCKey("", "n", "v") :> OldPVC) }

\* the function's inputs: the edition, the cluster and every flag it reads
InitNewDest ==
    /\ cluster \in ClustersNewDest
    /\ edition \in {"A", "B"}
    /\ flow = "migration"
    /\ \E cmf \in CopyMethodFlags, id \in PvcNameFlags, cap \in CapacityFlags,
          amf \in AccessModeFlags, sc \in StorageClassFlags, st \in ServiceTypeFlags :
          flags = [NoFlags EXCEPT !.copymethod = cmf, !.pvcname = id, !.capacity = cap,
                                  !.accessmodes = amf, !.storageclass = sc,
                                  !.servicetype = st]
    /\ pc = "call"
    /\ store = <<>>
    /\ disk = NoObj
    /\ bk = NoObj
    /\ runs = 1
    /\ rel = NoObj
    /\ mrd = NoObj
    /\ pvc = NoObj
    /\ client = Nil
    /\ wait = NoWait
    /\ log = <<>>
    /\ err = ""
    /\ ret = "pending"
    /\ aborted = NoObj

\* one call of newMigrationRelationshipDestination on the inputs
CallNewDestination ==
    /\ pc = "call"
    /\ \E clientOK \in BOOLEAN :
        LET xcr == ParseXClusterName(flags.pvcname)
            key == IF xcr = NoObj THEN PVCKey("", "", "")
                   ELSE PVCKey(ClientContext(xcr), xcr.Namespace, xcr.Name)
        IN  \E g \in GetResults(key) :
              LET r == NewMigrationRelationshipDestination(edition, flags.copymethod,
                          flags.pvcname, clientOK,
                          IF g = "Found" THEN cluster[key] ELSE NoObj,
                          flags.capacity, flags.accessmodes, flags.storageclass,
                          flags.servicetype)
              IN  /\ mrd' = r.mrd
                  /\ pvc' = r.pvc
                  /\ client' = r.client
                  /\ Proceed(r.calls, r.err, "returned",
                             IF r.err = "" THEN "nil" ELSE "error")
    /\ UNCHANGED <<cluster, store, flow, edition, aborted, runs, flags, rel, disk, bk, wait>>

NextNewDest == CallNewDestination

SpecNewDest == InitNewDest /\ [][NextNewDest]_vars

\* ------------------------------------------------------------- properties
\* the positions of the run's log where step op answered res
At(op, res) == {i \in DOMAIN log : log[i] = Step(op, res)}

\* the run has made step op with answer res
Has(op, res) == At(op, res) # {}

\* step op was made with answer res before position i of the log
Before(i, op, res) == \E j \in At(op, res) : j < i

\* the positions of the log where step op was made, whatever it answered
Made(op) == {i \in DOMAIN log : log[i].op = op}

\* the destination of the persisted migration document, with the field names
\* of the record: the struct as it was serialized, or the keys Save has set
\* below "data" (NoObj when the document holds no destination)
StoredDestination ==
    LET data == store["migration"]["data"]
    IN  IF "Destination" \in DOMAIN data THEN data.Destination
        ELSE LET d == data.destination
             IN  IF "rsync" \in DOMAIN d
                 THEN [Cluster |-> d.cluster, Namespace |-> d.namespace,
                       PVCName |-> d.pvcname, MDName |-> d.mdname,
                       Capacity |-> d.spec.capacity,
                       Address |-> d.rsync.address, Port |-> d.rsync.port,
                       SSHKeys |-> d.rsync.sshkeys]
                 ELSE [Cluster |-> Nil, Namespace |-> Nil, PVCName |-> Nil,
                       MDName |-> Nil, Capacity |-> d.destination.capacity,
                       Address |-> Nil, Port |-> Nil, SSHKeys |-> Nil]

\* C1: in the migration create flow a Save happens only after the
\* destination was built and the namespace, the PVC, the destination object
\* and the readiness wait have all succeeded.  Edition B's Run saves before
\* any of them.
C1_SaveOnlyAfterAllSteps ==
    flow = "migration" =>
        \A i \in Made("Save") :
            /\ Before(i, "NewDestination", "ok")
            /\ Before(i, "CreateNamespace", "Created")
                 \/ Before(i, "CreateNamespace", "AlreadyExists")
            /\ Before(i, "CreatePVC", "Created") \/ Before(i, "GetPVC", "found")
            /\ Before(i, "CreateDestination", "Created")
            /\ Before(i, "Wait", "ok")

\* C2: a migration create run in which a step failed does not return nil.
\* Edition B's Run returns nil for every failure after its Save.
C2_FailureReturnsError ==
    flow = "migration" /\ pc = "done" /\ err # "" => ret # "nil"

\* C3: in the backup create flow a Save is made only after the client was
\* resolved, the secret and the ReplicationSource were created and the wait
\* succeeded; a run in which one of them failed makes no Save.
C3_BackupSaveAfterWait ==
    flow = "backup" =>
        /\ \A i \in Made("Save") :
              /\ Before(i, "NewClient", "ok")
              /\ Before(i, "EnsureSecret", "Created")
              /\ Before(i, "CreateSource", "Created")
              /\ Before(i, "Wait", "ok")
        /\ \A i \in DOMAIN log :
              log[i].op \in {"NewClient", "EnsureSecret", "CreateSource", "Wait"}
              /\ log[i].res \notin {"ok", "Created"}
              => Made("Save") = {}

\* a backup run that saved its relationship and returned nil
C3_Witness ==
    flow = "backup" /\ pc = "done" /\ ret = "nil" /\ Has("Wait", "ok") /\ Has("Save", "ok")

\* C4: a migration create run that succeeded has saved the relationship
\* exactly once, after every cluster step, and the record it saved holds the
\* destination with the address, port and keys the wait obtained.  Edition
\* B's one Save comes first and holds no destination.
C4_SavedOnceAfterMerge ==
    flow = "migration" /\ pc = "done" /\ ret = "nil" /\ err = "" =>
        /\ Cardinality(Made("Save")) = 1
        /\ \A i \in At("Save", "ok") :
              /\ Made("CreateNamespace") # {}
              /\ \A j \in Made("CreateNamespace") \cup Made("CreatePVC")
                          \cup Made("CreateDestination") \cup Made("Wait") : j < i
        /\ "migration" \in DOMAIN store
        /\ LET d == StoredDestination
           IN  /\ d # NoObj
               /\ d.Address # Nil /\ d.Port # Nil /\ d.SSHKeys # Nil

\* C5: when the create of the ReplicationDestination (migration) or the
\* ReplicationSource (backup) answers already-exists, the run ends there:
\* it is the last step, no wait is started and the run has saved no
\* relationship.  Edition B's migration run has saved before.
C5_IntentCreateOnly ==
    \A i \in At("CreateDestination", "AlreadyExists") \cup At("CreateSource", "AlreadyExists") :
        /\ i = Len(log)
        /\ pc = "done"
        /\ err = "AlreadyExists"
        /\ Made("Wait") = {}
        /\ Made("Save") = {}

\* C6: in the backup create flow an already-exists answer to the create of
\* the secret is no error: the run goes on to create the ReplicationSource.
\* pvBackupCreate.ensureSecret returns the error and Run ends.
C6_SecretAlreadyExistsIsSuccess ==
    flow = "backup" =>
        \A i \in At("EnsureSecret", "AlreadyExists") :
            IF i = Len(log) THEN pc = "bksource" /\ err = ""
            ELSE log[i + 1].op = "CreateSource"

\* C7: in the migration create flow an already-exists answer to the create
\* of the namespace is success, and the run goes on to the PVC (its create,
\* or the destination object when the PVC was found); any other error of
\* that create ends the run with that error, and no create follows it.
C7_NamespaceAlreadyExists ==
    flow = "migration" =>
        /\ \A i \in At("CreateNamespace", "AlreadyExists") :
              IF i = Len(log)
              THEN /\ err = ""
                   /\ pc = IF Has("GetPVC", "found") THEN "createdest" ELSE "createpvc"
              ELSE log[i + 1].op =
                     IF Has("GetPVC", "found") THEN "CreateDestination" ELSE "CreatePVC"
        /\ \A i \in At("CreateNamespace", "Error") :
              /\ i = Len(log)
              /\ pc = "done"
              /\ err = "Error"

\* a migration run whose namespace existed and which went on to create
\* the PVC
C7_Witness ==
    /\ flow = "migration"
    /\ Has("CreateNamespace", "AlreadyExists")
    /\ Has("CreatePVC", "Created")

\* C8: when the PVC exists, the migration create flow makes no create call
\* for it, and the capacity, access modes and storage class of the record a
\* successful run has saved are those of the PVC on the cluster.  Edition B
\* records nothing of the PVC it found, and either edition creates over a
\* PVC its lookup failed to fetch.
C8_PVCIdempotent ==
    flow = "migration" =>
        /\ At("CreatePVC", "AlreadyExists") = {}
        /\ pc = "done" /\ err = "" /\ Has("GetPVC", "found") /\ Has("Save", "ok") =>
              LET d == rel.Destination
                  p == cluster[PVCKey(client, mrd.Namespace, mrd.PVCName)]
              IN  /\ d # NoObj
                  /\ d.Capacity = p.capacity
                  /\ d.AccessModes = p.accessModes
                  /\ d.StorageClassName = p.storageClassName

\* the errors of the flow's validation
ValidationErrors ==
    {"InvalidCapacity", "MalformedIdentifier", "UnsupportedCopyMethod",
     "UnsupportedAccessMode", "UnsupportedServiceType", "MissingCapacity"}

\* C9: a migration create run that failed validation has made no create
\* call and no Save.  Edition B's Run has saved before it validates.
C9_ValidationBeforeMutation ==
    flow = "migration" /\ err \in ValidationErrors =>
        Made("CreateNamespace") \cup Made("CreatePVC") \cup Made("CreateDestination")
           \cup Made("Save") = {}

\* C10 as stated: newMigrationRelationshipDestination lets a copy method
\* through exactly when it is Direct, Clone, Snapshot or None
C10_FourCopyMethods ==
    pc = "returned" /\ flags.copymethod # FlagErr =>
        (err # "UnsupportedCopyMethod"
           <=> flags.copymethod \in {"Direct", "Clone", "Snapshot", "None"})

\* C10, amended: newMigrationRelationshipDestination lets a copy method
\* through exactly when it is Clone or Snapshot, or Direct in edition A, or
\* None in edition B; every other value, None in edition A and Direct in
\* edition B included, is refused as an unsupported copy method before any
\* cluster call.
C10_CopyMethodPerEdition ==
    pc = "returned" /\ flags.copymethod # FlagErr =>
        /\ err # "UnsupportedCopyMethod"
             <=> \/ flags.copymethod \in {"Clone", "Snapshot"}
                 \/ edition = "A" /\ flags.copymethod = "Direct"
                 \/ edition = "B" /\ flags.copymethod = "None"
        /\ err = "UnsupportedCopyMethod" => log = <<>> /\ mrd = NoObj

\* edition A refused the copy method None
C10_Witness ==
    /\ pc = "returned"
    /\ edition = "A"
    /\ flags.copymethod = "None"
    /\ err = "UnsupportedCopyMethod"

\* the call got as far as the service type check: every check before it
\* passed
ReachedServiceType == err \in {"", "UnsupportedServiceType"}

\* C11 as stated: newMigrationRelationshipDestination lets a service type
\* through exactly when it is ClusterIP, NodePort or LoadBalancer
C11_ThreeServiceTypes ==
    pc = "returned" /\ ReachedServiceType =>
        (err = "" <=> flags.servicetype \in {"ClusterIP", "NodePort", "LoadBalancer"})

\* C11, amended: newMigrationRelationshipDestination lets a service type
\* through exactly when it is ClusterIP or LoadBalancer, or NodePort in
\* edition B; every other value, NodePort in edition A included, is refused
\* as an unsupported service type, and the refusal comes after the client
\* was resolved and the PVC looked up, with no record handed back.
C11_ServiceTypePerEdition ==
    pc = "returned" =>
        /\ ReachedServiceType =>
              (err = "" <=> \/ flags.servicetype \in {"ClusterIP", "LoadBalancer"}
                            \/ edition = "B" /\ flags.servicetype = "NodePort")
        /\ err = "" => mrd.ServiceType = flags.servicetype
        /\ err = "UnsupportedServiceType" => mrd = NoObj /\ Has("NewClient", "ok")

\* edition A refused the service type NodePort
C11_Witness ==
    /\ pc = "returned"
    /\ edition = "A"
    /\ flags.servicetype = "NodePort"
    /\ err = "UnsupportedServiceType"

\* ------------------------------------------------------------------- waits
Waiting == pc \in {"wait", "bkwait", "syncwait"}

LastFetch == wait.seen[Len(wait.seen)]

\* C12: in the waits of the migration, the backup and the sync, a fetch that
\* fails is the last fetch of the wait and ends it with the fetch's error;
\* every fetch that was followed by another found the object and evaluated
\* the predicate to "not yet".
C12_FetchErrorEndsWait ==
    /\ \A i \in DOMAIN wait.seen :
          i < Len(wait.seen) =>
              wait.seen[i].get = "Found" /\ wait.seen[i].cond = "retry"
    /\ wait.seen # <<>> /\ LastFetch.get # "Found" =>
          /\ pc = "done" /\ ret = "error" /\ err = "GetError"
          /\ log[Len(log)] = Step("Wait", "GetError")
          /\ wait.failure # NoObj /\ wait.failure.kind = "GetError"
          /\ wait.polls = Len(wait.seen)

C12_Witness ==
    /\ flow = "migration" /\ pc = "done" /\ Len(wait.seen) = 2
    /\ wait.seen[1].cond = "retry" /\ wait.seen[2].get # "Found"
    /\ err = "GetError"

\* C13: a wait stops at the first poll whose predicate is true: a fetch that
\* evaluated to "ready" is the last fetch of its wait, the wait has then
\* returned success, and the migration goes on with the address, port and
\* keys of the object that fetch returned.
C13_WaitStopsAtFirstReady ==
    \A i \in DOMAIN wait.seen :
        wait.seen[i].cond = "ready" =>
            /\ i = Len(wait.seen) /\ wait.polls = i
            /\ ~Waiting /\ Has("Wait", "ok") /\ wait.failure = NoObj
            /\ wait.last # NoObj
            /\ flow = "migration" =>
                  /\ mrd.Address = wait.last.Status.Rsync.Address
                  /\ mrd.Port = wait.last.Status.Rsync.Port
                  /\ mrd.SSHKeys = wait.last.Status.Rsync.SSHKeys

C13_Witness ==
    /\ flow = "migration" /\ Len(wait.seen) = 2
    /\ wait.seen[1].cond = "retry" /\ wait.seen[2].cond = "ready"
    /\ pc = "save"

\* the timeout of the wait of each flow
TimeoutOf(f) ==
    CASE f = "migration" -> DestinationTimeout
      [] f = "backup" -> RsyncKeyTimeout
      [] OTHER -> VolumeSyncTimeout

\* C14: a wait fails with the timeout error only on a "not yet" observed once
\* the timeout has elapsed, after fetches that all succeeded and all
\* evaluated to "not yet"; such an observation at the timeout fails the
\* wait with the timeout error, and one made before the timeout leaves the
\* wait polling (until the process is terminated).
C14_TimeoutOnlyAfterBound ==
    /\ (pc = "done" /\ err = "WaitTimeout") =>
          /\ wait.seen # <<>> /\ LastFetch.at >= TimeoutOf(flow)
          /\ \A i \in DOMAIN wait.seen :
                /\ wait.seen[i].get = "Found" /\ wait.seen[i].cond = "retry"
                /\ i < Len(wait.seen) => wait.seen[i].at < TimeoutOf(flow)
          /\ ret = "error" /\ wait.failure # NoObj
          /\ wait.failure.kind = "WaitTimeout"
    /\ (wait.seen # <<>> /\ LastFetch.cond = "retry") =>
          IF LastFetch.at < TimeoutOf(flow)
          THEN /\ err = "" /\ wait.failure = NoObj
               /\ \/ Waiting /\ ret = "pending"
                  \/ pc = "done" /\ ret = "killed"
          ELSE pc = "done" /\ err = "WaitTimeout"

C14_Witness ==
    /\ flow = "migration" /\ pc = "done" /\ err = "WaitTimeout"
    /\ LastFetch.at = DestinationTimeout
    /\ Len(wait.seen) = DestinationTimeout \div PollInterval + 1

\* the name of the object a wait polls
Awaited == IF wait.key = <<>> THEN Nil ELSE wait.key[4]

\* C15: when a wait times out, the error handed to the caller names the
\* awaited object and carries the last state observed for it.
C15_TimeoutNamesObject ==
    (pc = "done" /\ err = "WaitTimeout" /\ flow \in {"migration", "backup"}) =>
        /\ wait.failure # NoObj
        /\ Awaited \in wait.failure.names
        /\ wait.last \in wait.failure.states

\* the fetched destination has its status, its address and its keys
Complete(rd) ==
    /\ rd.Status # NoObj
    /\ rd.Status.Rsync # NoObj
    /\ rd.Status.Rsync.Address # Nil
    /\ rd.Status.Rsync.SSHKeys # Nil

\* C16: the wait of the migration destination evaluates a fetched object to
\* "ready" exactly when its status, its address and its keys are present,
\* and to "not yet" (polled again) when one of them is missing.
C16_ReadyNeedsAllThree ==
    (flow = "migration" /\ wait.seen # <<>> /\ LastFetch.get = "Found") =>
        IF Complete(wait.last) THEN LastFetch.cond = "ready"
        ELSE LastFetch.cond = "retry"

\* C17: a persisted migration record has a destination whose address and
\* keys are present and whose address, port and keys are those of the object
\* fetched by the successful poll of the wait.
C17_PersistedHasAddress ==
    (flow = "migration" /\ Has("Save", "ok")) =>
        LET d == StoredDestination
        IN  /\ d # NoObj
            /\ d.Address # Nil /\ d.SSHKeys # Nil
            /\ Has("Wait", "ok") /\ wait.last # NoObj
            /\ d.Address = wait.last.Status.Rsync.Address
            /\ d.Port = wait.last.Status.Rsync.Port
            /\ d.SSHKeys = wait.last.Status.Rsync.SSHKeys

\* ------------------------------------------------------------------- names
\* the destination objects on the cluster
Destinations == {k \in DOMAIN cluster : k[2] = "ReplicationDestination"}

\* C18: the destination migration create submits for PVC ns/name is named
\* <ns>-<name>-migration-dest, and that name is the one held by the record
\* and the one the wait polls.
C18_DestinationName ==
    (flow = "migration" /\ Has("CreateDestination", "Created")) =>
        LET key == RDKey(client, mrd.Namespace,
                         mrd.Namespace \o "-" \o mrd.PVCName \o "-migration-dest")
        IN  /\ Destinations = {key}
            /\ mrd.MDName = key[4]
            /\ wait.seen # <<>> => wait.key = key
            /\ Has("Save", "ok") =>
                  /\ StoredDestination # NoObj
                  /\ StoredDestination.MDName = key[4]

\* the objects a step has added to the cluster
Added == DOMAIN cluster' \ DOMAIN cluster

\* the source object of the backup the flags name
BackupSourceKey ==
    RSKey(client, ParseXClusterName(flags.pvcname).Namespace,
          flags.name \o "-backup-source")

\* C19: backup create creates the secret under the backup's name and the
\* source under <name>-backup-source, both in the namespace of the source
\* PVC, and every fetch of the wait is of that source.
C19_BackupNames ==
    [][flow = "backup" =>
         /\ (pc = "bksecret" /\ pc' = "bksource") =>
               Added = {SecretKey(client, ParseXClusterName(flags.pvcname).Namespace,
                                  flags.name)}
         /\ (pc = "bksource" /\ pc' = "bkwait") => Added = {BackupSourceKey}
         /\ (pc = "bkwait" /\ wait' # wait) => wait'.key = BackupSourceKey]_vars

C19_Witness ==
    /\ flow = "backup" /\ flags.name = "weekly" /\ pc = "bksave"
    /\ Has("EnsureSecret", "Created") /\ Has("CreateSource", "Created")
    /\ Len(wait.seen) = 2
    /\ wait.key = <<"", "ReplicationSource", "n", "weekly-backup-source">>

\* C20: in backup create an empty schedule is never the reason of a failure.
C20_EmptyScheduleAccepted ==
    (flow = "backup" /\ flags.cronspec = <<>>) => err # "InvalidSchedule"

\* ----------------------------------------------------- credential config
\* the run has loaded the file at --restic-config: parseCLI got past the
\* identifier
Loaded ==
    /\ flow = "backup" /\ Made("ParseCLI") # {}
    /\ ~Has("ParseCLI", "FlagError") /\ ~Has("ParseCLI", "MalformedIdentifier")

\* C21: a backup create whose config file lacks one of the four keys fails
\* while loading it, before a client is resolved and before any cluster
\* call.
C21_MissingKeyFailsAtLoad ==
    (Loaded /\ pc # "idle" /\ disk # NoObj /\ \E k \in ResticKeys : disk[k] = NoObj) =>
        /\ pc = "done" /\ ret = "error"
        /\ Has("ParseCLI", "MissingCredentialField")
        /\ client = Nil /\ Made("NewClient") = {}
        /\ Made("EnsureSecret") = {} /\ Made("CreateSource") = {}
        /\ Made("Wait") = {}

\* the run's log after the step holds op answered with res
HasNext(op, res) == \E i \in DOMAIN log' : log'[i] = Step(op, res)

\* C22: within a backup run the config file leaves the disk only in the step
\* that ends a run whose secret, source, wait and Save all succeeded; a run
\* whose Save succeeded returns nil whether or not the file was removed.
C22_FileRemovedOnlyOnSuccess ==
    [][(flow = "backup" /\ runs' = runs) =>
         /\ disk' # disk =>
               /\ disk' = NoObj /\ pc = "bksave" /\ pc' = "done" /\ ret' = "nil"
               /\ HasNext("EnsureSecret", "Created")
               /\ HasNext("CreateSource", "Created")
               /\ HasNext("Wait", "ok") /\ HasNext("Save", "ok")
         /\ (pc = "bksave" /\ HasNext("Save", "ok")) => ret' = "nil" /\ err' = ""]_vars

C22_Witness ==
    /\ flow = "backup" /\ pc = "done" /\ ret = "nil" /\ Has("Save", "ok")
    /\ disk = NoObj /\ bk.resticConfig = FullResticFile

\* the repository cannot be resolved from the file: the value of
\* RESTIC_REPOSITORY is absent, not a string, or empty
Unresolved(file) ==
    IF IsString(file.RESTIC_REPOSITORY) THEN file.RESTIC_REPOSITORY.val = ""
    ELSE TRUE

\* C23: a persisted backup record has a repository, and a run whose config
\* file gives no repository returns an error before a client is resolved,
\* before any cluster call and before any state is written.
C23_RepositoryNonEmpty ==
    flow = "backup" =>
        /\ Has("Save", "ok") => store["PVBackup"]["data"].Source.Repository # ""
        /\ (Loaded /\ pc # "idle" /\ disk # NoObj /\ Unresolved(disk)) =>
              /\ pc = "done" /\ ret = "error"
              /\ Made("NewClient") = {} /\ Made("EnsureSecret") = {}
              /\ Made("Save") = {}

\* --------------------------------------------------------- cluster context
\* C24: in migration create the client of the flow is the one resolved for
\* the cluster segment of --pvcname (the ambient context, "", when the
\* identifier has two segments), and the cluster held by the record and by
\* the persisted destination is that segment.
C24_ClientPerCluster ==
    (flow = "migration" /\ Has("NewClient", "ok")) =>
        LET xcr == ParseXClusterName(flags.pvcname)
        IN  /\ client = xcr.Cluster
            /\ mrd # NoObj => mrd.Cluster = xcr.Cluster
            /\ (Has("Save", "ok") /\ StoredDestination # NoObj) =>
                  StoredDestination.Cluster = xcr.Cluster

\* ------------------------------------------------------- terminated runs
\* the flags the run has read so far are those of the terminated run
SameArguments ==
    \A f \in DOMAIN flags : flags[f] = NoFlags[f] \/ flags[f] = aborted[f]

\* a call of the run failed for a reason of the cluster's: a create or the
\* client's resolution answered with an error, the lookup of the PVC failed
CallFailed ==
    \E i \in DOMAIN log : log[i].res = "Error" \/ log[i] = Step("GetPVC", "nil")

\* C25: after a migration create was terminated in its wait, a run with the
\* same arguments whose cluster calls all get through finds the namespace
\* and the PVC present without error, fails at the create of the
\* destination with already-exists, never waits on the object the
\* terminated run left and saves nothing.
C25_RerunAfterKill ==
    (flow = "migration" /\ aborted # NoObj /\ ret # "killed" /\ pc # "idle"
        /\ SameArguments /\ ~CallFailed) =>
        /\ \A i \in Made("CreateNamespace") :
              /\ log[i].res = "AlreadyExists"
              /\ i = Len(log) => pc = "createdest" /\ err = ""
        /\ Made("CreatePVC") = {}
        /\ Made("CreateNamespace") # {} => Has("GetPVC", "found")
        /\ \A i \in Made("CreateDestination") :
              /\ log[i].res = "AlreadyExists"
              /\ pc = "done" /\ ret = "error" /\ err = "AlreadyExists"
        /\ pc \notin {"wait", "save"} /\ wait.seen = <<>>
        /\ Made("Wait") = {} /\ Made("Save") = {}

C25_Witness ==
    /\ flow = "migration" /\ aborted # NoObj /\ SameArguments /\ ~CallFailed
    /\ pc = "done" /\ ret = "error"
    /\ Has("CreateNamespace", "AlreadyExists") /\ Has("GetPVC", "found")
    /\ Has("CreateDestination", "AlreadyExists")

\* ------------------------------------------------------------- quantities
\* the canonical renderings of the quantities of the model
CanonicalQuantities == {"10Gi", "5Gi", "0"}

\* C26: a saved migration record whose destination has a capacity holds, for
\* the capacity, the canonical string of the quantity, set by Save below
\* "data" in place of what the serializer makes of a Quantity; a record
\* without capacity is saved all the same, as the serializer writes it.
C26_CapacityAsString ==
    [][(flow = "migration" /\ HasNext("Save", "ok") /\ ~Has("Save", "ok")) =>
         LET r == rel'
             d == StoredDestination'
         IN  IF r.Destination # NoObj /\ r.Destination.Capacity # NoObj
             THEN /\ "destination" \in DOMAIN store'["migration"]["data"]
                  /\ d.Capacity = QuantityString(r.Destination.Capacity)
                  /\ d.Capacity \in CanonicalQuantities
             ELSE store'["migration"] = ("data" :> SerializeData(r))]_vars

C26_Witness ==
    /\ flow = "migration" /\ Has("Save", "ok") /\ rel.Destination # NoObj
    /\ rel.Destination.Capacity = ParseQuantity("10Gi")
    /\ StoredDestination.Capacity = "10Gi"

\* ------------------------------------------------------ options and cluster
\* C27: a migration create that rejects its copy method or its service type
\* has resolved no client and made no cluster call, the lookup of the
\* destination PVC included.
C27_OptionsBeforeCluster ==
    (flow = "migration" /\ err \in {"UnsupportedCopyMethod", "UnsupportedServiceType"}) =>
        /\ client = Nil
        /\ Made("NewClient") = {} /\ Made("GetPVC") = {}
        /\ Made("CreateNamespace") \cup Made("CreatePVC")
              \cup Made("CreateDestination") = {}

\* -------------------------------------------------------------- termination
\* a step of the CLI process: the process is sequential, one of these is its
\* next step
Run ==
    \/ MigValidateArgs \/ MigNewRelationship \/ MigEarlySave \/ MigNewDestination
    \/ MigCreateNamespace \/ MigCreatePVC \/ MigCreateDestination \/ MigPoll
    \/ MigSave
    \/ BkNewCreate \/ BkNewClient \/ BkEnsureSecret \/ BkEnsureReplicationSource
    \/ BkPoll \/ BkSave
    \/ SyncPoll

\* the first invocation
InvokeOnce == runs = 0 /\ Invoke

\* one invocation, the controller and a termination beside it
NextLive ==
    \/ InvokeOnce
    \/ Run
    \/ Kill
    \/ ControllerDestination
    \/ ControllerSource
    \/ ControllerSync

\* the process keeps running while it is not terminated: its next step,
\* the next poll of a wait included, is eventually taken; nothing is asked
\* of the controller or of a termination
SpecLive == Init /\ [][NextLive]_vars /\ WF_vars(Run)

\* C28: every invocation ends: under fair scheduling of the process a run
\* that has started eventually is over, whatever the controller does or
\* does not do.
C28_RunsTerminate == (pc \notin {"idle", "done"}) ~> (pc = "done")

\* a migration wait that the controller left alone and that ran out
C28_Witness ==
    /\ flow = "migration" /\ pc = "done" /\ err = "WaitTimeout"
    /\ wait.last # NoObj /\ wait.last.Status = NoObj
    /\ wait.polls = DestinationTimeout \div PollInterval + 1

\* C29: in the wait of the backup, the last fetch that found the source
\* evaluated to "ready" exactly when the object it returned has a status,
\* whatever that status holds, and the wait has then returned success; an
\* object without status leaves the wait polling or timed out, never
\* successful.
C29_StatusPresenceIsReady ==
    (flow = "backup" /\ wait.seen # <<>>) =>
        /\ LastFetch.get = "Found" =>
              /\ wait.last # NoObj
              /\ IF wait.last.Status # NoObj
                 THEN /\ LastFetch.cond = "ready"
                      /\ pc \in {"bksave", "done"}
                      /\ Has("Wait", "ok") /\ wait.failure = NoObj
                 ELSE /\ LastFetch.cond = "retry"
                      /\ ~Has("Wait", "ok")
                      /\ \/ pc = "bkwait" /\ ret = "pending"
                         \/ pc = "done" /\ err = "WaitTimeout" /\ ret = "error"
        /\ Has("Wait", "ok") =>
              /\ LastFetch.get = "Found" /\ wait.last.Status \in SourceStatuses

C29_Witness ==
    /\ flow = "backup" /\ pc = "bksave"
    /\ Len(wait.seen) = 2
    /\ wait.seen[1].cond = "retry" /\ wait.seen[2].cond = "ready"
    /\ wait.last.Status = [LastManualSync |-> ""]

\* the manual trigger of a replication source is set
Triggered(rs) == IF rs.Trigger = NoObj THEN FALSE ELSE rs.Trigger.Manual # ""

\* the status of a replication source records the sync its trigger asks for
Synced(rs) ==
    IF rs.Status = NoObj \/ rs.Trigger = NoObj THEN FALSE
    ELSE rs.Status.LastManualSync = rs.Trigger.Manual

\* C30: in waitForSync, the last fetch that found the source ended the wait
\* with the internal error when the object has no manual trigger, whatever
\* its status; it ended the wait with success when the
\* status is present and its marker equals the trigger; in every other case
\* the wait polls on or has timed out.  waitForSync returns nil only after
\* such a successful fetch.
C30_SyncNeedsMatchingMarker ==
    (flow = "sync" /\ wait.seen # <<>>) =>
        /\ LastFetch.get = "Found" =>
              /\ wait.last # NoObj
              /\ IF ~Triggered(wait.last)
                 THEN /\ LastFetch.cond = "internal"
                      /\ pc = "done" /\ ret = "error" /\ err = "InternalError"
                      /\ wait.failure # NoObj
                      /\ wait.failure.text =
                            <<"internal error: manual trigger not specified">>
                 ELSE IF Synced(wait.last)
                 THEN /\ LastFetch.cond = "ready"
                      /\ pc = "done" /\ ret = "nil" /\ err = ""
                 ELSE /\ LastFetch.cond = "retry"
                      /\ \/ pc = "syncwait" /\ ret = "pending"
                         \/ pc = "done" /\ err = "WaitTimeout" /\ ret = "error"
        /\ ret = "nil" =>
              /\ LastFetch.get = "Found"
              /\ Triggered(wait.last) /\ Synced(wait.last)
        /\ \A i \in DOMAIN wait.seen :
              i < Len(wait.seen) => wait.seen[i].cond = "retry"

C30_Witness ==
    /\ flow = "sync" /\ pc = "done" /\ ret = "nil"
    /\ Len(wait.seen) = 2 /\ wait.seen[1].cond = "retry"
    /\ wait.last.Trigger = [Manual |-> "m1"]
    /\ wait.last.Status = [LastManualSync |-> "m1"]

\* a destination whose status is present while its rsync part is not yet
\* populated
Partial(rd) ==
    IF rd = NoObj THEN FALSE
    ELSE IF rd.Status = NoObj THEN FALSE
    ELSE rd.Status.Rsync = NoObj

\* C31: in the wait of the migration destination, a fetched object whose
\* status is present and whose rsync part is not yet populated evaluates to
\* "not yet": the run is not ended by a crash, and the wait polls again or
\* ends with its timeout.
C31_PartialStatusPolledAgain ==
    (flow = "migration" /\ wait.seen # <<>> /\ LastFetch.get = "Found"
        /\ Partial(wait.last)) =>
        /\ LastFetch.cond = "retry"
        /\ ret \notin {"panic"}
        /\ \/ pc = "wait"
           \/ pc = "done" /\ ret = "killed"
           \/ pc = "done" /\ err = "WaitTimeout"

\* the PVC the lookup of migration create asks the cluster for
LookedUp ==
    LET xcr == ParseXClusterName(flags.pvcname)
    IN  PVCKey(ClientContext(xcr), xcr.Namespace, xcr.Name)

\* C32: migration create treats the destination PVC as absent only when the
\* lookup answered not-found: in a run whose lookup came back empty, a PVC
\* that is on the cluster under the looked-up name was created by this run.
\* A lookup that fails on a PVC that exists would have ended the run with
\* the lookup's error, without a capacity requirement and without a create.
C32_AbsentOnlyOnNotFound ==
    (flow = "migration" /\ Has("GetPVC", "nil")) =>
        (Exists(LookedUp) => Has("CreatePVC", "Created"))

\* the Secret and the ReplicationSource of the running backup
BackupSecretKey == SecretKey(client, bk.Namespace, bk.Name)

\* C33: in a backup run the cluster steps are made once each and in the
\* order secret create, source create, wait, each only after the one before
\* it succeeded; nothing the run created is taken off the cluster again:
\* the Secret it created is on the cluster, with the values it was created
\* with, in every later state of the run, the states after a failed source
\* create and a failed wait included, and so is the source it created.
C33_NoCleanupAfterFailure ==
    flow = "backup" =>
        /\ \A op \in {"EnsureSecret", "CreateSource", "Wait"} : Cardinality(Made(op)) <= 1
        /\ \A i \in Made("CreateSource") : Before(i, "EnsureSecret", "Created")
        /\ \A i \in Made("Wait") : Before(i, "CreateSource", "Created")
        /\ pc = "bksource" => Has("EnsureSecret", "Created")
        /\ pc = "bkwait" => Has("CreateSource", "Created")
        /\ Has("EnsureSecret", "Created") =>
              /\ Exists(BackupSecretKey)
              /\ cluster[BackupSecretKey] = SecretObj(bk)
        /\ Has("CreateSource", "Created") => Exists(BackupSourceKey)

C33_Witness ==
    /\ flow = "backup" /\ pc = "done" /\ ret = "error"
    /\ Has("EnsureSecret", "Created") /\ Has("CreateSource", "Created")
    /\ Has("Wait", "WaitTimeout")
    /\ Exists(BackupSecretKey) /\ Exists(BackupSourceKey)

====
